---- MODULE Spec2Model ----
(***************************************************************************)
(* A model of va_opt.h, a VA_OPT polyfill for the C preprocessor.          *)
(*                                                                         *)
(* A token list is a flat sequence of preprocessing tokens (strings); the  *)
(* tokens "(", ")" and "," carry the structure.  Macro replacement is      *)
(* modelled as the preprocessor performs it: arguments are collected by    *)
(* splitting at top-level commas, each argument is fully macro-expanded    *)
(* before it is substituted (unless it is an operand of ##), and the       *)
(* replacement is rescanned.  Every macro of the header is one operator    *)
(* carrying the macro's name.                                              *)
(*                                                                         *)
(* Each strategy is modelled on a toolchain that provides the feature the  *)
(* strategy relies on: __VA_OPT__ for Native, `,##__VA_ARGS__` comma       *)
(* elision for GNU, the traditional comma elision for MSVC.                *)
(***************************************************************************)
EXTENDS Integers, Sequences, FiniteSets, TLC

VARIABLES
    cfg,      \* the override macros and toolchain signals of the build
    impl,     \* NTRNLVA_IMPL, 0 while not yet selected
    args,     \* the token list handed to the public macro
    payload,  \* the tokens guarded by VA_OPT / VA_NOPT
    op,       \* the macro applied last ("none" before any)
    key,      \* the probe tuple the reduction was applied to
    out       \* the tokens the macro expanded to

vars == <<cfg, impl, args, payload, op, key, out>>

-----------------------------------------------------------------------------
(* Bounds of the explored inputs *)

\* longest argument list (number of comma-separated items)
MaxItems == 3
\* longest run of parenthesised groups an item starts with
MaxGroups == 3

-----------------------------------------------------------------------------
(* Implementation identifiers *)

NTRNLVA_IMPL_NATIVE == 1
NTRNLVA_IMPL_GNU == 2
NTRNLVA_IMPL_MSVC == 3
NTRNLVA_IMPL_C99 == 4

Impls == {NTRNLVA_IMPL_NATIVE, NTRNLVA_IMPL_GNU, NTRNLVA_IMPL_MSVC, NTRNLVA_IMPL_C99}

-----------------------------------------------------------------------------
(* The preprocessor: tokens, argument collection, rescanning, pasting *)

\* what a malformed invocation or an invalid paste leaves behind: the
\* translation unit does not compile
ERR == "#error"

ZERO == <<"0">>
ONE == <<"1">>

\* a string literal
STR == "\"unpastable\""

\* tokens that ## cannot join to an identifier
Punctuators == {"(", ")", ",", "+", "-", "~", STR, ERR}

\* the element of a one-element set: Once({e : x \in {v}}) is e with x bound
\* to the value of v, which is computed once
Once(S) == CHOOSE r \in S : TRUE

HasErr(t) == ERR \in {t[i] : i \in 1..Len(t)}

\* the number of groups open at position i
Depth(t, i) ==
    Cardinality({j \in 1..(i - 1) : t[j] = "("}) - Cardinality({j \in 1..(i - 1) : t[j] = ")"})

Min(S) == CHOOSE x \in S : \A y \in S : x <= y

\* index of the ")" closing the group that opens at position i; 0 when the
\* group is not closed
CloseAt(t, i) ==
    Once({IF S = {} THEN 0 ELSE Min(S) : S \in {{j \in (i + 1)..Len(t) : t[j] = ")" /\ Depth(t, j + 1) = Depth(t, i)}}})

\* the positions of the top-level commas of t
Commas(t) == {i \in 1..Len(t) : t[i] = "," /\ Depth(t, i) = 0}

\* the arguments of an invocation: t split at its top-level commas
SplitAt(t, C) ==
    LET n == Cardinality(C)
        cut(k) == IF k = 0 THEN 0
                  ELSE IF k = n + 1 THEN Len(t) + 1
                  ELSE CHOOSE x \in C : Cardinality({y \in C : y < x}) = k - 1
    IN  [k \in 1..(n + 1) |-> SubSeq(t, cut(k - 1) + 1, cut(k) - 1)]

SplitArgs(t) == Once({Once({SplitAt(x, C) : C \in {Commas(x)}}) : x \in {t}})

\* the n-th argument; an absent argument leaves the invocation malformed
Arg(a, n) == Once({IF n <= Len(x) THEN x[n] ELSE <<ERR>> : x \in {a}})

\* a ## b on single tokens
PasteTok(a, b) == IF a \in Punctuators \/ b \in Punctuators THEN ERR ELSE a \o b

\* a ## t: the last token of a is joined to the first token of t; an empty
\* operand is a placemarker
PasteSeq(a, t) ==
    IF t = <<>> THEN a
    ELSE IF a = <<>> THEN t
    ELSE SubSeq(a, 1, Len(a) - 1) \o <<PasteTok(a[Len(a)], t[1])>> \o Tail(t)

Paste(a, t) == Once({Once({PasteSeq(x, y) : y \in {t}}) : x \in {a}})

-----------------------------------------------------------------------------
(* Macros whose replacement list uses none of their parameters *)

\* +, +, ... with n plus signs
Pluses(n) == [i \in 1..(2 * n - 1) |-> IF i % 2 = 1 THEN "+" ELSE ","]

\* the number of plus signs MACMANYPLUS expands to
ManyPlus == 19

\* object-like macros: name -> replacement list
ObjMacros ==
    [ NTRNLVA_SENTINEL_          |-> <<"(", ")", "(", ")", "(", ")">>,
      NTRNLVA_IS_EMPTY_CASE_0001 |-> <<",">>,
      NTRNLVA_COMPL_0            |-> ONE,
      NTRNLVA_COMPL_1            |-> ZERO,
      NTRNLVA_ISEMPTY_I0         |-> ONE,
      NTRNLVA_ISEMPTY_I01        |-> ZERO,
      NTRNLVA_NOTEMPTY_I0        |-> ZERO,
      NTRNLVA_NOTEMPTY_I01       |-> ONE ]

\* function-like macros: name -> the number of fixed parameters, whether a
\* "..." follows them, and the replacement list
FnMacros ==
    [ NTRNLVA_EMPTY                |-> [fixed |-> 0, va |-> TRUE, body |-> <<>>],
      NTRNLVA_IS_SENTINEL          |-> [fixed |-> 0, va |-> TRUE, body |-> <<"NTRNLVA_IS_SENTINEL1">>],
      NTRNLVA_IS_SENTINEL1         |-> [fixed |-> 0, va |-> TRUE, body |-> <<"NTRNLVA_IS_SENTINEL2">>],
      NTRNLVA_IS_SENTINEL2         |-> [fixed |-> 0, va |-> TRUE, body |-> <<"(", ")">>],
      NTRNLVA_IS_PAREN_PROBE       |-> [fixed |-> 0, va |-> TRUE, body |-> <<"~", ",", "1", ",">>],
      NTRNLVA_TRIGGER_PARENTHESIS_ |-> [fixed |-> 0, va |-> TRUE, body |-> <<",">>],
      EATER0      |-> [fixed |-> 0, va |-> TRUE, body |-> <<>>],
      EATER1      |-> [fixed |-> 0, va |-> TRUE, body |-> <<",">>],
      EATER2      |-> [fixed |-> 0, va |-> TRUE, body |-> <<"(", ")">>],
      EATER3      |-> [fixed |-> 0, va |-> TRUE, body |-> <<"(", ")", ",">>],
      EATER4      |-> [fixed |-> 0, va |-> TRUE, body |-> <<"EATER1">>],
      EATER5      |-> [fixed |-> 0, va |-> TRUE, body |-> <<"EATER2">>],
      MAC0        |-> [fixed |-> 0, va |-> FALSE, body |-> <<"(", ")">>],
      MAC1        |-> [fixed |-> 1, va |-> FALSE, body |-> <<"(", ")">>],
      MACV        |-> [fixed |-> 0, va |-> TRUE, body |-> <<"(", ")">>],
      MACMANYPLUS |-> [fixed |-> 0, va |-> TRUE, body |-> Pluses(ManyPlus)],
      MAC2        |-> [fixed |-> 2, va |-> FALSE, body |-> <<"whatever">>] ]

\* whether the tokens between the parentheses of an invocation of m are a
\* well-formed argument list for it
ArityOK(m, inside) ==
    Once({IF m.va THEN m.fixed <= 1 \/ n >= m.fixed
        ELSE IF m.fixed = 0 THEN inside = <<>>
        ELSE n = m.fixed : n \in {Len(SplitArgs(inside))}})

\* the positions of t where a macro is invoked: the name of an object-like
\* macro, or the name of a function-like macro with a "(" after it
Invocations(t) ==
    {i \in 1..Len(t) : \/ t[i] \in DOMAIN ObjMacros
                       \/ t[i] \in DOMAIN FnMacros /\ i < Len(t) /\ t[i + 1] = "("}

\* macro expansion of a token list: the leftmost invocation is replaced and
\* the replacement is rescanned together with the tokens after it; the
\* tokens before it are final
RECURSIVE Rescan(_)
Expand(t, i) ==
    LET h == t[i]
        c == CloseAt(t, i + 1)
    IN  IF h \in DOMAIN ObjMacros
        THEN SubSeq(t, 1, i - 1) \o Rescan(ObjMacros[h] \o SubSeq(t, i + 1, Len(t)))
        ELSE IF c = 0 \/ ~ArityOK(FnMacros[h], SubSeq(t, i + 2, c - 1))
        THEN SubSeq(t, 1, i - 1) \o <<ERR>>
        ELSE SubSeq(t, 1, i - 1) \o Rescan(FnMacros[h].body \o SubSeq(t, c + 1, Len(t)))

Rescan(t) ==
    Once({Once({IF I = {} THEN x ELSE Expand(x, Min(I)) : I \in {Invocations(x)}}) : x \in {t}})

-----------------------------------------------------------------------------
(* Selection and probing primitives *)

NTRNLVA_EXPAND(va) == Rescan(va)

NTRNLVA_SEL1_I(va) == Rescan(Arg(SplitArgs(va), 1))
NTRNLVA_SEL2_I(va) == Rescan(Arg(SplitArgs(va), 2))
NTRNLVA_SEL3_I(va) == Rescan(Arg(SplitArgs(va), 3))

NTRNLVA_SEL1(va) == NTRNLVA_SEL1_I(Rescan(va))
NTRNLVA_SEL2(va) == NTRNLVA_SEL2_I(Rescan(va))
NTRNLVA_SEL3(va) == NTRNLVA_SEL3_I(Rescan(va))

NTRNLVA_PRIMITIVE_CAT(a, va) == Rescan(Paste(a, va))

NTRNLVA_CAT(a, va) == NTRNLVA_PRIMITIVE_CAT(Rescan(a), Rescan(va))

NTRNLVA_AND_0(y) == ZERO
NTRNLVA_AND_1(y) == Rescan(y)

\* NTRNLVA_AND(x)(y): the pasted name is applied to the group after it
NTRNLVA_AND(x, y) ==
    Once({IF HasErr(f) THEN <<ERR>>
        ELSE IF f = <<"NTRNLVA_AND_0">> THEN NTRNLVA_AND_0(y)
        ELSE IF f = <<"NTRNLVA_AND_1">> THEN NTRNLVA_AND_1(y)
        ELSE f \o <<"(">> \o y \o <<")">> : f \in {NTRNLVA_PRIMITIVE_CAT(<<"NTRNLVA_AND_">>, Rescan(x))}})

NTRNLVA_CHECK_N(va) == Rescan(Arg(SplitArgs(va), 2))

NTRNLVA_CHECK(va) == NTRNLVA_CHECK_N(Rescan(va) \o <<",", "0", ",">>)

NTRNLVA_IS_PAREN(x) == NTRNLVA_CHECK(<<"NTRNLVA_IS_PAREN_PROBE">> \o Rescan(x))

\* a wrong variant of NTRNLVA_COMPL that does not negate, kept to show that
\* the complement property depends on the negation table
NTRNLVA_COMPL_Identity(b) == Rescan(b)

NTRNLVA_COMPL(b) == NTRNLVA_PRIMITIVE_CAT(<<"NTRNLVA_COMPL_">>, Rescan(b))

\* NTRNLVA_UP(x) is NTRNLVA_UP_I x: the parentheses around x are taken off
NTRNLVA_UP_I(va) == Rescan(va)
NTRNLVA_UP(x) ==
    Once({IF t # <<>> /\ Head(t) = "("
        THEN Once({IF c = 0 THEN <<ERR>>
                 ELSE Rescan(NTRNLVA_UP_I(SubSeq(t, 2, c - 1)) \o SubSeq(t, c + 1, Len(t))) : c \in {CloseAt(t, 1)}})
        ELSE <<"NTRNLVA_UP_I">> \o t : t \in {Rescan(x)}})

NTRNLVA_CHECK_SENTINEL(x) ==
    NTRNLVA_IS_PAREN(NTRNLVA_EXPAND(<<"NTRNLVA_IS_SENTINEL">> \o Rescan(x)))

-----------------------------------------------------------------------------
(* __VA_OPT__ and the comma elision extensions, as the toolchain provides them *)

\* __VA_OPT__(content): content when the variable argument has tokens
VA_OPT__(va, content) == IF Rescan(va) = <<>> THEN <<>> ELSE content

\* GNU `,##__VA_ARGS__`: the comma goes when the variable argument is empty
GnuCommaVaArgs(va) == Once({IF x = <<>> THEN <<>> ELSE <<",">> \o x : x \in {va}})

\* MSVC traditional `,__VA_ARGS__`: the comma before an empty __VA_ARGS__ goes
MsvcCommaVaArgs(va) == Once({IF x = <<>> THEN <<>> ELSE <<",">> \o x : x \in {va}})

-----------------------------------------------------------------------------
(* ISEMPTY implementations *)

\* Native
NTRNLVA_ISEMPTY_I_NATIVE(x) == NTRNLVA_PRIMITIVE_CAT(<<"NTRNLVA_ISEMPTY_I0">>, x)
VA_ISEMPTY_NATIVE(va) == NTRNLVA_ISEMPTY_I_NATIVE(VA_OPT__(va, ONE))

NTRNLVA_NOTEMPTY_I_NATIVE(x) == NTRNLVA_PRIMITIVE_CAT(<<"NTRNLVA_NOTEMPTY_I0">>, x)
VA_NOTEMPTY_NATIVE(va) == NTRNLVA_NOTEMPTY_I_NATIVE(VA_OPT__(va, ONE))

\* GNU
NTRNLVA_ISEMPTY_I_GNU(va) == NTRNLVA_CHECK_SENTINEL(Arg(SplitArgs(va), 3))
NTRNLVA_ISEMPTY_INDIRECT_GNU(va) ==
    NTRNLVA_ISEMPTY_I_GNU(GnuCommaVaArgs(va) \o <<",", "0", ",", "NTRNLVA_SENTINEL_">>)
VA_ISEMPTY_GNU(va) == NTRNLVA_ISEMPTY_INDIRECT_GNU(Rescan(va))
VA_NOTEMPTY_GNU(va) == NTRNLVA_COMPL(VA_ISEMPTY_GNU(va))

\* MSVC: NTRNLVA_EMPTY() defers the invocation until the list is in place
NTRNLVA_ISEMPTY_I_MSVC(va) == NTRNLVA_CHECK_SENTINEL(Arg(SplitArgs(va), 3))
NTRNLVA_ISEMPTY_INDIRECT_MSVC(va) ==
    NTRNLVA_ISEMPTY_I_MSVC(MsvcCommaVaArgs(va) \o <<",", "0", ",", "NTRNLVA_SENTINEL_">>)
VA_ISEMPTY_MSVC(va) == NTRNLVA_ISEMPTY_INDIRECT_MSVC(Rescan(va))
VA_NOTEMPTY_MSVC(va) == NTRNLVA_COMPL(VA_ISEMPTY_MSVC(va))

\* C99
NTRNLVA_HAS_COMMA(va) ==
    Once({IF HasErr(a) THEN <<ERR>>
        ELSE NTRNLVA_CHECK_SENTINEL(
                 NTRNLVA_SEL3_I(a \o <<",", "NTRNLVA_SENTINEL_", ",", "0">>)) : a \in {Rescan(va)}})

\* a wrong variant of NTRNLVA_PASTE5 that pastes the probe results in the
\* opposite order, kept to show that the reduction depends on the order
NTRNLVA_PASTE5_Reversed(p0, p1, p2, p3, p4) == Paste(Paste(Paste(Paste(p0, p4), p3), p2), p1)

NTRNLVA_PASTE5(p0, p1, p2, p3, p4) == Paste(Paste(Paste(Paste(p0, p1), p2), p3), p4)

NTRNLVA_ISEMPTY_BASE_I(p0, p1, p2, p3) ==
    NTRNLVA_HAS_COMMA(
        NTRNLVA_PASTE5(<<"NTRNLVA_IS_EMPTY_CASE_">>, Rescan(p0), Rescan(p1), Rescan(p2), Rescan(p3)))

\* the four probes of NTRNLVA_ISEMPTY_BASE, in the order they are pasted
Probes(va) ==
    Once({<< NTRNLVA_HAS_COMMA(x),
           NTRNLVA_HAS_COMMA(<<"NTRNLVA_TRIGGER_PARENTHESIS_">> \o x),
           NTRNLVA_HAS_COMMA(x \o <<"(", ")">>),
           NTRNLVA_HAS_COMMA(<<"NTRNLVA_TRIGGER_PARENTHESIS_">> \o x \o <<"(", ")">>) >> : x \in {Rescan(va)}})

NTRNLVA_ISEMPTY_BASE(va) ==
    Once({NTRNLVA_ISEMPTY_BASE_I(p[1], p[2], p[3], p[4]) : p \in {Probes(va)}})

NTRNLVA_ISEMPTY_I_C99(va) ==
    NTRNLVA_AND(NTRNLVA_ISEMPTY_BASE(NTRNLVA_SEL1(va)),
                NTRNLVA_CHECK_SENTINEL(NTRNLVA_SEL2(va)))
VA_ISEMPTY_C99(va) ==
    NTRNLVA_ISEMPTY_I_C99(Rescan(va) \o <<",", "NTRNLVA_SENTINEL_">>)
VA_NOTEMPTY_C99(va) == NTRNLVA_COMPL(VA_ISEMPTY_C99(va))

\* the implementation NTRNLVA_IMPL selects
VA_ISEMPTY(i, va) ==
    IF i = NTRNLVA_IMPL_NATIVE THEN VA_ISEMPTY_NATIVE(va)
    ELSE IF i = NTRNLVA_IMPL_GNU THEN VA_ISEMPTY_GNU(va)
    ELSE IF i = NTRNLVA_IMPL_MSVC THEN VA_ISEMPTY_MSVC(va)
    ELSE VA_ISEMPTY_C99(va)

VA_NOTEMPTY(i, va) ==
    IF i = NTRNLVA_IMPL_NATIVE THEN VA_NOTEMPTY_NATIVE(va)
    ELSE IF i = NTRNLVA_IMPL_GNU THEN VA_NOTEMPTY_GNU(va)
    ELSE IF i = NTRNLVA_IMPL_MSVC THEN VA_NOTEMPTY_MSVC(va)
    ELSE VA_NOTEMPTY_C99(va)

-----------------------------------------------------------------------------
(* VA_OPT implementations *)

NTRNLVA_OPT_IMPL_0(va) == Rescan(va)
NTRNLVA_OPT_IMPL_1(va) == <<>>

NTRNLVA_OPT_IMPL(opt, va) ==
    Once({IF HasErr(f) THEN <<ERR>>
        ELSE IF f = <<"NTRNLVA_OPT_IMPL_0">> THEN NTRNLVA_OPT_IMPL_0(va)
        ELSE IF f = <<"NTRNLVA_OPT_IMPL_1">> THEN NTRNLVA_OPT_IMPL_1(va)
        ELSE f \o <<"(">> \o va \o <<")">> : f \in {NTRNLVA_CAT(<<"NTRNLVA_OPT_IMPL_">>, opt)}})

\* Native: the payload goes through __VA_OPT__ itself
NTRNLVA_OPT_I(opt, va) == VA_OPT__(va, NTRNLVA_UP(opt))

\* args is the parenthesised guard list, va the payload
VA_OPT(i, guard, va) ==
    IF i # NTRNLVA_IMPL_NATIVE
    THEN NTRNLVA_OPT_IMPL(VA_ISEMPTY(i, NTRNLVA_UP(guard)), va)
    ELSE NTRNLVA_OPT_I(<<"(">> \o Rescan(va) \o <<")">>, NTRNLVA_UP(guard))

VA_NOPT(i, guard, va) ==
    NTRNLVA_OPT_IMPL(VA_NOTEMPTY(i, NTRNLVA_UP(guard)), va)

-----------------------------------------------------------------------------
(* Selection of the implementation *)

\* NTRNLVA_SEL3 as first defined, for the detection of __VA_OPT__
NTRNLVA_SEL3_DETECT(va) == NTRNLVA_EXPAND(NTRNLVA_SEL3_I(Rescan(va)))

\* NTRNLVA_OPT_SUPPORTED_I(?): where __VA_OPT__ is not known it stays an
\* identifier followed by a group
NTRNLVA_OPT_SUPPORTED_I(va, native) ==
    NTRNLVA_SEL3_DETECT(
        (IF native THEN VA_OPT__(va, <<",">>) ELSE <<"__VA_OPT__", "(", ",", ")">>)
            \o <<",", "1", ",", "0", ",">>)

\* the value of VA_OPT_SUPPORTED: "undef" stands for a macro not defined
VA_OPT_SUPPORTED(c) ==
    IF c.VA_OPT_SUPPORTED # "undef" THEN <<c.VA_OPT_SUPPORTED>>
    ELSE IF c.PCC THEN ZERO
    ELSE NTRNLVA_OPT_SUPPORTED_I(<<"?">>, c.has_va_opt)

\* #if on a macro that expands to an integer
IfTrue(t) == t # ZERO

MsvcTraditional(c) == IF c.MSVC_TRADITIONAL = "undef" THEN ONE ELSE <<c.MSVC_TRADITIONAL>>

AutoSelect(c) ==
    IF IfTrue(VA_OPT_SUPPORTED(c)) THEN NTRNLVA_IMPL_NATIVE
    ELSE IF c.MSC_VER /\ ~c.llvm /\ ~c.INTEL_COMPILER
    THEN (IF IfTrue(MsvcTraditional(c)) THEN NTRNLVA_IMPL_MSVC ELSE NTRNLVA_IMPL_GNU)
    ELSE IF c.GNUC /\ ~c.STRICT_ANSI THEN NTRNLVA_IMPL_GNU
    ELSE IF c.INTEL_COMPILER THEN NTRNLVA_IMPL_GNU
    ELSE NTRNLVA_IMPL_C99

\* a wrong variant of NTRNLVA_IMPL that lets detection win over an override
NTRNLVA_IMPL_DetectFirst(c) ==
    IF IfTrue(VA_OPT_SUPPORTED(c)) THEN NTRNLVA_IMPL_NATIVE
    ELSE IF c.USE_NATIVE THEN NTRNLVA_IMPL_NATIVE
    ELSE IF c.USE_GNU THEN NTRNLVA_IMPL_GNU
    ELSE IF c.USE_MSVC THEN NTRNLVA_IMPL_MSVC
    ELSE IF c.USE_C99 THEN NTRNLVA_IMPL_C99
    ELSE AutoSelect(c)

NTRNLVA_IMPL(c) ==
    IF c.USE_NATIVE THEN NTRNLVA_IMPL_NATIVE
    ELSE IF c.USE_GNU THEN NTRNLVA_IMPL_GNU
    ELSE IF c.USE_MSVC THEN NTRNLVA_IMPL_MSVC
    ELSE IF c.USE_C99 THEN NTRNLVA_IMPL_C99
    ELSE AutoSelect(c)

-----------------------------------------------------------------------------
(* The inputs explored *)

Configs ==
    [ USE_NATIVE : BOOLEAN, USE_GNU : BOOLEAN, USE_MSVC : BOOLEAN, USE_C99 : BOOLEAN,
      VA_OPT_SUPPORTED : {"undef", "0", "1"}, PCC : BOOLEAN, has_va_opt : BOOLEAN,
      MSC_VER : BOOLEAN, llvm : BOOLEAN, INTEL_COMPILER : BOOLEAN,
      GNUC : BOOLEAN, STRICT_ANSI : BOOLEAN, MSVC_TRADITIONAL : {"undef", "0", "1"} ]

\* the build of a specification that does not explore the selection
NoConfig == [c \in {} |-> FALSE]

\* k parenthesised groups in a row: ()()...
Groups(k) == [i \in 1..(2 * k) |-> IF i % 2 = 1 THEN "(" ELSE ")"]

\* items of one token: an identifier, a string literal, an operator, and the
\* names of the macros of the test corpus
SingleToks ==
    { "a", STR, "+", "NTRNLVA_TRIGGER_PARENTHESIS_",
      "EATER0", "EATER1", "EATER2", "EATER3", "EATER4", "EATER5",
      "MAC0", "MAC1", "MACV", "MACMANYPLUS", "MAC2" }

\* the first item of a list: empty, one token, (void), or a run of groups
\* with or without a token after it
FirstItems ==
    {<<>>, <<"(", "void", ")">>}
        \cup {<<t>> : t \in SingleToks}
        \cup {Groups(k) \o tl : k \in 1..MaxGroups,
                                tl \in {<<>>, <<"a">>, <<"EATER1">>, <<"MAC2">>}}

SecondItems ==
    {<<"MAC2">>} \cup {Groups(k) \o tl : k \in 0..MaxGroups, tl \in {<<>>, <<"a">>}}

LaterItems == {<<"a">>, Groups(MaxGroups)}

\* the lists of n items
RECURSIVE ListsOf(_)
ListsOf(n) ==
    IF n = 1 THEN FirstItems
    ELSE {l \o <<",">> \o i : l \in ListsOf(n - 1),
                              i \in (IF n = 2 THEN SecondItems ELSE LaterItems)}

\* a list of one empty item is the empty list
ArgLists == UNION {ListsOf(n) : n \in 1..MaxItems}

Payloads == {<<"-", "1">>, <<"+", "1">>, <<",">>, <<"X", ",", "Y">>}

Bits == {"0", "1"}

\* the items of the argument list
Items(va) == SplitArgs(va)

\* the value of an expression 0, 1, or 0/1 followed by +1 or -1, as main
\* compares it with the expected value; -1 for anything else
Num(tok) == IF tok = "1" THEN 1 ELSE 0
Value(t) ==
    IF Len(t) = 1 /\ t[1] \in Bits THEN Num(t[1])
    ELSE IF Len(t) = 3 /\ t[1] \in Bits /\ t[3] \in Bits /\ t[2] \in {"+", "-"}
    THEN (IF t[2] = "+" THEN Num(t[1]) + Num(t[3]) ELSE Num(t[1]) - Num(t[3]))
    ELSE -1

\* whether a macro expanded to one of the two truth values
Resolved(t) == t \in {ZERO, ONE}

\* the name of a macro that requires two or more fixed parameters
NeedsTwo(tok) == tok \in DOMAIN FnMacros /\ FnMacros[tok].fixed >= 2

FirstItem(va) == Items(va)[1]

\* the first item is the name of a macro that requires two or more parameters
FirstIsNeedsTwo(va) == Len(FirstItem(va)) = 1 /\ NeedsTwo(FirstItem(va)[1])

\* the first item ends with such a name, so that a "()" put after the item
\* invokes the macro
FirstEndsNeedsTwo(va) ==
    FirstItem(va) # <<>> /\ NeedsTwo(FirstItem(va)[Len(FirstItem(va))])

-----------------------------------------------------------------------------
(* The build selects the implementation *)

InitSel ==
    /\ cfg \in Configs
    /\ impl = 0
    /\ args = <<>>
    /\ payload = <<>>
    /\ op = "none"
    /\ key = <<>>
    /\ out = <<>>

Select ==
    /\ impl = 0
    /\ impl' = NTRNLVA_IMPL(cfg)
    /\ op' = "NTRNLVA_IMPL"
    /\ UNCHANGED <<cfg, args, payload, key, out>>

NextSel == Select

SpecSel == InitSel /\ [][NextSel]_vars

-----------------------------------------------------------------------------
(* The public macros, applied to an argument list under a selected
   implementation *)

Init ==
    /\ cfg = NoConfig
    /\ impl \in Impls
    /\ args \in ArgLists
    /\ payload = <<>>
    /\ op = "none"
    /\ key = <<>>
    /\ out = <<>>

IsEmpty ==
    /\ op = "none"
    /\ op' = "VA_ISEMPTY"
    /\ out' = VA_ISEMPTY(impl, args)
    /\ UNCHANGED <<cfg, impl, args, payload, key>>

NotEmpty ==
    /\ op = "none"
    /\ op' = "VA_NOTEMPTY"
    /\ out' = VA_NOTEMPTY(impl, args)
    /\ UNCHANGED <<cfg, impl, args, payload, key>>

Opt ==
    /\ op = "none"
    /\ \E x \in Payloads :
        /\ payload' = x
        /\ out' = VA_OPT(impl, <<"(">> \o args \o <<")">>, x)
    /\ op' = "VA_OPT"
    /\ UNCHANGED <<cfg, impl, args, key>>

Nopt ==
    /\ op = "none"
    /\ \E x \in Payloads :
        /\ payload' = x
        /\ out' = VA_NOPT(impl, <<"(">> \o args \o <<")">>, x)
    /\ op' = "VA_NOPT"
    /\ UNCHANGED <<cfg, impl, args, key>>

\* the sentinel check on the n-th item of the list
CheckSentinel ==
    /\ op = "none"
    /\ impl # NTRNLVA_IMPL_NATIVE
    /\ \E n \in 1..Len(Items(args)) :
        /\ key' = <<n>>
        /\ out' = NTRNLVA_CHECK_SENTINEL(Items(args)[n])
    /\ op' = "NTRNLVA_CHECK_SENTINEL"
    /\ UNCHANGED <<cfg, impl, args, payload>>

Next == IsEmpty \/ NotEmpty \/ Opt \/ Nopt \/ CheckSentinel

Spec == Init /\ [][Next]_vars

-----------------------------------------------------------------------------
(* The probes of the C99 implementation *)

InitProbe ==
    /\ cfg = NoConfig
    /\ impl = NTRNLVA_IMPL_C99
    /\ args \in ArgLists
    /\ payload = <<>>
    /\ op = "none"
    /\ key = <<>>
    /\ out = <<>>

HasComma ==
    /\ op = "none"
    /\ op' = "NTRNLVA_HAS_COMMA"
    /\ out' = NTRNLVA_HAS_COMMA(args)
    /\ UNCHANGED <<cfg, impl, args, payload, key>>

\* NTRNLVA_ISEMPTY_BASE on the first item, with the probes it pastes
Base ==
    /\ op = "none"
    /\ op' = "NTRNLVA_ISEMPTY_BASE"
    /\ key' = Probes(NTRNLVA_SEL1(args))
    /\ out' = NTRNLVA_ISEMPTY_BASE(NTRNLVA_SEL1(args))
    /\ UNCHANGED <<cfg, impl, args, payload>>

\* the reduction on any tuple of probe results
Reduce ==
    /\ op = "none"
    /\ \E b \in [1..4 -> Bits] :
        /\ key' = <<<<b[1]>>, <<b[2]>>, <<b[3]>>, <<b[4]>>>>
        /\ out' = NTRNLVA_ISEMPTY_BASE_I(<<b[1]>>, <<b[2]>>, <<b[3]>>, <<b[4]>>)
    /\ op' = "NTRNLVA_ISEMPTY_BASE_I"
    /\ UNCHANGED <<cfg, impl, args, payload>>

NextProbe == HasComma \/ Base \/ Reduce

SpecProbe == InitProbe /\ [][NextProbe]_vars

(***************************************************************************)
(* Properties.                                                             *)
(***************************************************************************)

\* the list is one the Portable strategy can decide: appending "()" to its
\* first item does not invoke a macro that requires two or more parameters
Decidable(i, va) == i = NTRNLVA_IMPL_C99 => ~FirstEndsNeedsTwo(va)

Empty(va) == va = <<>>

Bit(b) == IF b THEN ONE ELSE ZERO

\* C1: under the Portable strategy, for every list whose first item is not
\* the name of a macro requiring two or more parameters, IsEmpty is 1 when
\* the list has no tokens and 0 otherwise.  Stated with the wider
\* exclusion (first item not ending in such a name), which the claim's
\* wording implies a fortiori.
C1_PortableIsEmpty ==
    (op = "VA_ISEMPTY" /\ impl = NTRNLVA_IMPL_C99 /\ ~FirstEndsNeedsTwo(args))
        => out = Bit(Empty(args))

\* C2: EmitIfNonEmpty emits the payload exactly when the guard list is
\* non-empty, EmitIfEmpty exactly when it is empty, and the test
\* expressions 1 EmitIfNonEmpty((L), -1) and 0 EmitIfEmpty((L), +1) both
\* evaluate to IsEmpty(L).
C2_EmitAgreesWithEmptiness ==
    /\ (op = "VA_OPT" /\ Decidable(impl, args))
          => /\ out = (IF Empty(args) THEN <<>> ELSE payload)
             /\ payload = <<"-", "1">>
                  => Value(ONE \o out) = Value(VA_ISEMPTY(impl, args))
    /\ (op = "VA_NOPT" /\ Decidable(impl, args))
          => /\ out = (IF Empty(args) THEN payload ELSE <<>>)
             /\ payload = <<"+", "1">>
                  => Value(ZERO \o out) = Value(VA_ISEMPTY(impl, args))

\* C3: SelectOnEmptiness (VA_NOPT) yields its payload when the guard list
\* is empty and nothing otherwise; with payload -1 the guarded expression
\* (a 1 followed by what the macro emits, as main writes it) is 0 for the
\* empty list and 1 for the list "a".
C3_SelectOnEmptiness ==
    (op = "VA_NOPT" /\ Decidable(impl, args))
        => /\ out = (IF Empty(args) THEN payload ELSE <<>>)
           /\ (payload = <<"-", "1">> /\ Empty(args)) => Value(ONE \o out) = 0
           /\ (payload = <<"-", "1">> /\ args = <<"a">>) => Value(ONE \o out) = 1

C5_StrategiesAgree ==
    (op = "VA_ISEMPTY" /\ ~FirstEndsNeedsTwo(args))
        => \A i \in Impls : VA_ISEMPTY(i, args) = out

\* C6: the strategy is chosen at build time: an override selects its
\* strategy whatever detection says; without an override Native is chosen
\* where __VA_OPT__ is detected, otherwise a vendor strategy where a vendor
\* signal is present, otherwise Portable.
NoOverride(c) == ~c.USE_NATIVE /\ ~c.USE_GNU /\ ~c.USE_MSVC /\ ~c.USE_C99
OnlyOverride(c, f) == \A g \in {"USE_NATIVE", "USE_GNU", "USE_MSVC", "USE_C99"} : c[g] <=> g = f
Detected(c) == VA_OPT_SUPPORTED(c) # ZERO
MsvcSignal(c) == c.MSC_VER /\ ~c.llvm /\ ~c.INTEL_COMPILER
GnuSignal(c) == (c.GNUC /\ ~c.STRICT_ANSI) \/ c.INTEL_COMPILER
C6_Selection ==
    op = "NTRNLVA_IMPL" =>
        /\ impl \in Impls
        /\ OnlyOverride(cfg, "USE_NATIVE") => impl = NTRNLVA_IMPL_NATIVE
        /\ OnlyOverride(cfg, "USE_GNU") => impl = NTRNLVA_IMPL_GNU
        /\ OnlyOverride(cfg, "USE_MSVC") => impl = NTRNLVA_IMPL_MSVC
        /\ OnlyOverride(cfg, "USE_C99") => impl = NTRNLVA_IMPL_C99
        /\ (NoOverride(cfg) /\ Detected(cfg)) => impl = NTRNLVA_IMPL_NATIVE
        /\ (NoOverride(cfg) /\ ~Detected(cfg) /\ (MsvcSignal(cfg) \/ GnuSignal(cfg)))
              => impl \in {NTRNLVA_IMPL_GNU, NTRNLVA_IMPL_MSVC}
        /\ (NoOverride(cfg) /\ ~Detected(cfg) /\ ~MsvcSignal(cfg) /\ ~GnuSignal(cfg))
              => impl = NTRNLVA_IMPL_C99

\* C6 happens: the Portable override was given on a compiler where
\* __VA_OPT__ is detected, and Portable was selected
C6_Witness ==
    /\ op = "NTRNLVA_IMPL"
    /\ OnlyOverride(cfg, "USE_C99")
    /\ Detected(cfg)
    /\ impl = NTRNLVA_IMPL_C99

\* C7: a first item that is the name of a macro requiring two or more
\* parameters is the only class of list the Portable strategy cannot
\* resolve, for IsEmpty and for both emit macros; the other three
\* strategies give 0 on such a list.
C7_PortableLimitation ==
    /\ (impl = NTRNLVA_IMPL_C99 /\ op \in {"VA_ISEMPTY", "VA_OPT", "VA_NOPT"})
          => (HasErr(out) <=> FirstIsNeedsTwo(args))
    /\ (impl # NTRNLVA_IMPL_C99 /\ op = "VA_ISEMPTY" /\ FirstIsNeedsTwo(args))
          => out = ZERO

\* C8 as written: the reduction maps the probe results (0,0,1,1) to 1 and
\* every other combination to 0.
C8_Reduction0011 ==
    op = "NTRNLVA_ISEMPTY_BASE_I"
        => out = Bit(key = <<ZERO, ZERO, ONE, ONE>>)

\* C8: the reduction maps the probe results (P1,P2,P3,P4) = (0,0,0,1) to 1
\* and every other combination to 0, whether the results are given
\* directly or computed from a list item.
C8_Reduction0001 ==
    /\ op = "NTRNLVA_ISEMPTY_BASE_I"
          => out = Bit(key = <<ZERO, ZERO, ZERO, ONE>>)
    /\ (op = "NTRNLVA_ISEMPTY_BASE" /\ \A k \in 1..4 : Resolved(key[k]))
          => out = Bit(key = <<ZERO, ZERO, ZERO, ONE>>)

\* C8 happens: the reduction was applied to (0,0,0,1) and gave 1
C8_Witness ==
    /\ op = "NTRNLVA_ISEMPTY_BASE_I"
    /\ key = <<ZERO, ZERO, ZERO, ONE>>
    /\ out = ONE

\* C9: the comma probe is 1 when its list has two or more items at top
\* level and 0 otherwise, for any number of items.
C9_HasComma ==
    op = "NTRNLVA_HAS_COMMA"
        => out = Bit(Len(Items(args)) >= 2)

\* C10: no list item supplied by a caller is taken for the internal
\* sentinel: the sentinel test is 1 on no caller item, and the strategies
\* that use the sentinel never report a non-empty list as empty.
C10_NoSentinelCollision ==
    /\ op = "NTRNLVA_CHECK_SENTINEL" => out # ONE
    /\ (op = "VA_ISEMPTY" /\ impl # NTRNLVA_IMPL_NATIVE /\ ~Empty(args)) => out # ONE

====
